---- MODULE Spec2Model ----
(***************************************************************************)
(* Model of streamlit_baseball_app.py: the game-record normaliser          *)
(* (extract_game_data), the criterion checks (meets_criteria_x,            *)
(* meets_criteria_y), the push breakdown (analyze_push_combinations), the  *)
(* schedule fetch loop (get_season_games) and the Analyze run of main().   *)
(*                                                                         *)
(* Python values are modelled as follows.  None is the record              *)
(* [kind |-> "None"].  A call's outcome is Returned(v) when the call       *)
(* returns v and Raised(e) when it raises exception e.  A dict key that    *)
(* may be missing or null is a tag field ("absent", "null", ...) next to   *)
(* the value field.                                                        *)
(***************************************************************************)
EXTENDS Integers, Sequences, FiniteSets, TLC

VARIABLES
    widgets,   \* the sidebar widgets' values of the current script run
    pc,        \* where the run is: "idle", "fetching", "collected", "done"
    games,     \* main()'s games list
    fetch,     \* get_season_games' locals (days_processed, current_date,
               \* all_games), the number of iterations whose try raised, the
               \* outcome of the last request and the exception that ended
               \* the call
    analysis,  \* what the Analyze run computed, or the exception that ended it
    call,      \* a module function called on its own: arguments and outcome
    rejected   \* the widget that refused the last input, "none" otherwise

vars == <<widgets, pc, games, fetch, analysis, call, rejected>>

-----------------------------------------------------------------------------
(* Bounds of the model *)

\* longest innings list of a game record given to the classifier
MaxInnings == 6

\* longest innings list of a raw payload given to the normaliser
MaxRawInnings == 2

\* largest value of the "Days to analyze" slider
MaxDays == 2

\* most iterations of one get_season_games call over the full slider range
\* whose try may raise before the calendar runs out
MaxFailures == 1

-----------------------------------------------------------------------------
(* Python values *)

None == [kind |-> "None"]

Returned(v) == [raised |-> "none", value |-> v]

Raised(e) == [raised |-> e]

\* s[:n]
PySlice(s, n) == SubSeq(s, 1, IF Len(s) < n THEN Len(s) ELSE n)

\* sum(s): left to right from 0
RECURSIVE PySum(_)
PySum(s) == IF Len(s) = 0 THEN 0 ELSE Head(s) + PySum(Tail(s))

\* the names bound at module level once the script has been loaded
ModuleGlobals ==
    {"st", "pd", "requests", "json", "datetime", "timedelta", "px", "go",
     "time", "get_season_games", "extract_game_data", "meets_criteria_x",
     "meets_criteria_y", "analyze_push_combinations", "get_sample_data",
     "main"}

\* evaluation of a free name inside a module-level function: the module's
\* globals are searched, and a name bound nowhere raises NameError
LoadGlobal(name) ==
    IF name \in ModuleGlobals THEN Returned(name) ELSE Raised("NameError")

-----------------------------------------------------------------------------
(* Game records: the dicts extract_game_data builds and get_sample_data    *)
(* lists.  Only the fields the classifier reads are kept.                  *)

InningLine(i, a, h) == [inning |-> i, away_runs |-> a, home_runs |-> h]

GameRecord(a, h, inn) ==
    [kind |-> "dict", away_score |-> a, home_score |-> h, innings |-> inn]

\* (away_runs, home_runs) of one inning
InningRuns == {<<0, 0>>, <<1, 1>>, <<2, 1>>}

\* (away_score, home_score): totals 0, 8, 9 and 10
ScorePairs == {<<0, 0>>, <<5, 3>>, <<5, 4>>, <<6, 4>>}

InningsOfLen(n) ==
    {[i \in 1..n |-> InningLine(i, p[i][1], p[i][2])] : p \in [1..n -> InningRuns]}

GameInnings == UNION {InningsOfLen(n) : n \in 0..MaxInnings}

GameRecords == {GameRecord(s[1], s[2], inn) : s \in ScorePairs, inn \in GameInnings}

\* what a caller may hand to a criterion check
GameArgs == GameRecords \cup {None}

-----------------------------------------------------------------------------
(* The criterion checks *)

\* the generator summed at lines 141-142, 152-153, 176-177
first5_terms(game_data) ==
    LET first5 == PySlice(game_data.innings, 5)
    IN  [i \in 1..Len(first5) |-> first5[i].away_runs + first5[i].home_runs]

\* mutant of runs_first_5: the [:5] slice forgotten
runs_all_innings(game_data) ==
    PySum([i \in 1..Len(game_data.innings) |->
             game_data.innings[i].away_runs + game_data.innings[i].home_runs])

runs_first_5(game_data) == PySum(first5_terms(game_data))

\* mutant of total_runs: the inning runs summed instead of the final scores
total_runs_from_innings(game_data) == runs_all_innings(game_data)

total_runs(game_data) == game_data.away_score + game_data.home_score

\* `not game_data or not game_data['innings']`
no_game_data(game_data) ==
    \/ game_data = None
    \/ Len(game_data.innings) = 0

\* mutant of meets_criteria_x: `not game_data` forgotten, so that None is
\* subscripted
meets_criteria_x_no_none_guard(game_data) ==
    IF game_data = None THEN Raised("TypeError")
    ELSE IF Len(game_data.innings) = 0 THEN Returned(FALSE)
    ELSE Returned(runs_first_5(game_data) >= 7 /\ total_runs(game_data) < 9)

meets_criteria_x(game_data) ==
    IF no_game_data(game_data)
    THEN Returned(FALSE)
    ELSE Returned(runs_first_5(game_data) >= 7 /\ total_runs(game_data) < 9)

meets_criteria_y(game_data) ==
    IF no_game_data(game_data)
    THEN Returned(FALSE)
    ELSE Returned(runs_first_5(game_data) >= 6 /\ total_runs(game_data) <= 9)

\* the locals of a criterion check when it returns: unset on the early return
criteria_locals(game_data) ==
    IF no_game_data(game_data)
    THEN [set |-> FALSE]
    ELSE [set |-> TRUE,
          runs_first_5 |-> runs_first_5(game_data),
          total_runs |-> total_runs(game_data)]

\* a call f(*args) of a function declared with one positional parameter:
\* any other number of arguments raises TypeError before the body runs
call_meets_criteria_x(args) ==
    IF Len(args) # 1 THEN Raised("TypeError") ELSE meets_criteria_x(args[1])

call_meets_criteria_y(args) ==
    IF Len(args) # 1 THEN Raised("TypeError") ELSE meets_criteria_y(args[1])

-----------------------------------------------------------------------------
(* The push breakdown *)

BucketKeys ==
    {<<f, t>> : f \in {"exactly", "over", "under"}, t \in {"under", "exactly", "over"}}

\* the if/elif/else ladder of lines 181-201: which list the game is appended to
push_bucket(game, push_first5, push_total) ==
    LET f == IF runs_first_5(game) = push_first5 THEN "exactly"
             ELSE IF runs_first_5(game) > push_first5 THEN "over"
             ELSE "under"
        t == IF total_runs(game) < push_total THEN "under"
             ELSE IF total_runs(game) = push_total THEN "exactly"
             ELSE "over"
    IN  <<f, t>>

\* the loop of lines 172-201 over games, appending in list order
RECURSIVE push_loop(_, _, _, _)
push_loop(results, gs, push_first5, push_total) ==
    IF Len(gs) = 0 THEN results
    ELSE LET game == Head(gs)
         IN  IF no_game_data(game)
             THEN push_loop(results, Tail(gs), push_first5, push_total)
             ELSE LET k == push_bucket(game, push_first5, push_total)
                  IN  push_loop([results EXCEPT ![k] = Append(@, game)],
                                Tail(gs), push_first5, push_total)

\* the body: push_first5 and push_total are free names of the function, first
\* evaluated by the f-string of line 161
analyze_push_combinations(gs) ==
    LET f == LoadGlobal("push_first5")
        t == LoadGlobal("push_total")
    IN  IF f.raised # "none" THEN f
        ELSE IF t.raised # "none" THEN t
        ELSE Returned(push_loop([k \in BucketKeys |-> <<>>], gs, f.value, t.value))

call_analyze_push_combinations(args) ==
    IF Len(args) # 1 THEN Raised("TypeError") ELSE analyze_push_combinations(args[1])

-----------------------------------------------------------------------------
(* The sidebar of main() *)

Operators == {"<", "<=", "=", ">"}

\* values the number_input widgets are set to in the model: the first-5
\* fields take either default (7 of Criteria X, 6 of Criteria Y and of the
\* push pivot), the total fields keep their common default
First5Choices == {6, 7}

TotalChoices == {9}

-----------------------------------------------------------------------------
(* Raw payloads of the schedule API and their normalisation *)

\* inning['away'] / inning['home']: the key absent, null, or a dict whose
\* 'runs' is absent, null or a number
TeamEntry(e, k, r) == [entry |-> e, runs_key |-> k, runs |-> r]

PlainEntry == TeamEntry("dict", "int", 1)

TeamEntries ==
    {TeamEntry("absent", "absent", 0), TeamEntry("null", "absent", 0),
     TeamEntry("dict", "absent", 0), TeamEntry("dict", "null", 0),
     TeamEntry("dict", "int", 0), TeamEntry("dict", "int", 2), PlainEntry}

RawInning(k, a, h) == [kind |-> k, away |-> a, home |-> h]

\* an element of linescore['innings']: a dict with one side irregular at
\* most, or null
RawInnings ==
    {RawInning("dict", a, PlainEntry) : a \in TeamEntries}
    \cup {RawInning("dict", PlainEntry, h) : h \in TeamEntries}
    \cup {RawInning("null", PlainEntry, PlainEntry)}

RawInningLists ==
    UNION {[1..n -> RawInnings] : n \in 0..MaxRawInnings}

\* game['teams']: absent, null, or a dict with both scores, or with the away
\* score missing
RawTeams(t, k, a, h) ==
    [teams |-> t, away_score_key |-> k, away_score |-> a, home_score |-> h]

RawTeamsChoices ==
    {RawTeams("absent", "absent", 0, 0), RawTeams("null", "absent", 0, 0),
     RawTeams("dict", "int", 5, 3), RawTeams("dict", "absent", 0, 3)}

RawGame(st, ls, ik, inn, tm) ==
    [status |-> st, linescore |-> ls, innings_key |-> ik, innings |-> inn, teams |-> tm]

\* payloads with no usable linescore, with no innings list (the key absent,
\* null, or a non-zero number in its place), and with one
RawGamesOf(st) ==
    {RawGame(st, ls, "absent", <<>>, tm) :
        ls \in {"absent", "null"}, tm \in RawTeamsChoices}
    \cup {RawGame(st, "dict", ik, <<>>, tm) :
        ik \in {"absent", "null", "number"}, tm \in RawTeamsChoices}
    \cup {RawGame(st, "dict", "list", inn, tm) :
        inn \in RawInningLists, tm \in RawTeamsChoices}

RawGames == RawGamesOf("Final")

\* mutant of inning_runs: inning[side]['runs'] or 0, a missing key raising
inning_runs_subscript(inning, side) ==
    LET e == IF side = "away" THEN inning.away ELSE inning.home
    IN  IF inning.kind # "dict" THEN Raised("TypeError")
        ELSE IF e.entry = "absent" THEN Raised("KeyError")
        ELSE IF e.entry = "null" THEN Raised("TypeError")
        ELSE IF e.runs_key = "absent" THEN Raised("KeyError")
        ELSE IF e.runs_key = "int" /\ e.runs # 0 THEN Returned(e.runs)
        ELSE Returned(0)

\* inning.get(side, {}).get('runs', 0) or 0
inning_runs(inning, side) ==
    LET e == IF side = "away" THEN inning.away ELSE inning.home
    IN  IF inning.kind # "dict" THEN Raised("AttributeError")
        ELSE IF e.entry = "absent" THEN Returned(0)
        ELSE IF e.entry = "null" THEN Raised("AttributeError")
        ELSE IF e.runs_key = "int" /\ e.runs # 0 THEN Returned(e.runs)
        ELSE Returned(0)

\* the loop of lines 123-129: one inning line per raw inning, numbered from 1
RECURSIVE innings_loop(_, _)
innings_loop(lines, raw) ==
    IF Len(raw) = 0 THEN Returned(lines)
    ELSE LET a == inning_runs(Head(raw), "away")
             h == inning_runs(Head(raw), "home")
         IN  IF a.raised # "none" THEN a
             ELSE IF h.raised # "none" THEN h
             ELSE innings_loop(Append(lines, InningLine(Len(lines) + 1, a.value, h.value)),
                               Tail(raw))

\* the statements inside the try of extract_game_data
extract_body(game) ==
    IF game.linescore = "null" THEN Raised("AttributeError")
    ELSE IF \/ game.linescore = "absent"
            \/ game.innings_key \in {"absent", "null"}
            \/ (game.innings_key = "list" /\ Len(game.innings) = 0)
    THEN Returned(None)
    ELSE IF game.teams.teams = "null" THEN Raised("AttributeError")
    ELSE IF game.innings_key # "list" THEN Raised("TypeError")
    ELSE LET away_score == IF game.teams.teams = "dict" /\ game.teams.away_score_key = "int"
                           THEN game.teams.away_score ELSE 0
             home_score == IF game.teams.teams = "dict" THEN game.teams.home_score ELSE 0
             lines == innings_loop(<<>>, game.innings)
         IN  IF lines.raised # "none" THEN lines
             ELSE Returned(GameRecord(away_score, home_score, lines.value))

\* mutant of extract_game_data: no try/except around the body
extract_game_data_no_except(game) == extract_body(game)

\* try: ... except Exception: return None
extract_game_data(game) ==
    LET r == extract_body(game)
    IN  IF r.raised # "none" THEN Returned(None) ELSE r

\* what a user may try to enter in a threshold field or pick as a condition
First5Inputs == First5Choices \cup {0, 16}
TotalInputs == TotalChoices \cup {0, 26}
OperatorInputs == Operators \cup {"!="}

\* mutant of number_input: a field without min_value and max_value
number_input_unbounded(v, min_value, max_value) == TRUE

\* st.number_input(min_value=, max_value=) takes v only within its range
number_input(v, min_value, max_value) == min_value <= v /\ v <= max_value

\* st.selectbox(options) offers the options alone
selectbox(v, options) == v \in options

First5Accepted == {v \in First5Inputs : number_input(v, 1, 15)}
TotalAccepted == {v \in TotalInputs : number_input(v, 1, 25)}
OperatorAccepted == {v \in OperatorInputs : selectbox(v, Operators)}

\* the widgets that refuse one of the inputs tried
RefusingWidgets ==
    {"number_input" : v \in (First5Inputs \ First5Accepted) \cup (TotalInputs \ TotalAccepted)}
    \cup {"selectbox" : v \in OperatorInputs \ OperatorAccepted}

\* the widget values a single interaction can change w to; max_days is
\* bound only while the live-data checkbox is ticked (0 stands for unbound)
WidgetChanges(w) ==
    {[w EXCEPT !.x_first5 = v] : v \in First5Accepted}
    \cup {[w EXCEPT !.x_total = v] : v \in TotalAccepted}
    \cup {[w EXCEPT !.x_operator = v] : v \in OperatorAccepted}
    \cup {[w EXCEPT !.y_first5 = v] : v \in First5Accepted}
    \cup {[w EXCEPT !.y_total = v] : v \in TotalAccepted}
    \cup {[w EXCEPT !.y_operator = v] : v \in OperatorAccepted}
    \cup {[w EXCEPT !.push_first5 = v] : v \in First5Accepted}
    \cup {[w EXCEPT !.push_total = v] : v \in TotalAccepted}
    \cup {[w EXCEPT !.use_live_data = TRUE, !.max_days = v] : v \in 1..MaxDays}
    \cup {[w EXCEPT !.use_live_data = FALSE, !.max_days = 0]}

\* the widgets' value= defaults
DefaultWidgets ==
    [x_first5 |-> 7, x_total |-> 9, x_operator |-> "<",
     y_first5 |-> 6, y_total |-> 9, y_operator |-> "<=",
     push_first5 |-> 6, push_total |-> 9,
     use_live_data |-> FALSE, max_days |-> 0]

-----------------------------------------------------------------------------
(* The sample data *)

SampleCopies == 25

SampleGame1 ==
    GameRecord(5, 3,
        <<InningLine(1, 2, 1), InningLine(2, 1, 2), InningLine(3, 2, 0),
          InningLine(4, 0, 0), InningLine(5, 0, 0), InningLine(6, 0, 0),
          InningLine(7, 0, 0), InningLine(8, 0, 0), InningLine(9, 0, 0)>>)

SampleGame2 ==
    GameRecord(4, 4,
        <<InningLine(1, 2, 1), InningLine(2, 1, 2), InningLine(3, 1, 1),
          InningLine(4, 0, 0), InningLine(5, 0, 0), InningLine(6, 0, 0),
          InningLine(7, 0, 0), InningLine(8, 0, 0), InningLine(9, 0, 0)>>)

\* [game1, game2] * 25
get_sample_data ==
    [i \in 1..(2 * SampleCopies) |-> IF i % 2 = 1 THEN SampleGame1 ELSE SampleGame2]

-----------------------------------------------------------------------------
(* get_season_games: one iteration of the while loop per request *)

\* what the schedule request of one date yields: an exception (timeout,
\* connection error, undecodable body), a non-200 status, or a 200 body
\* whose 'dates' is missing/empty or lists the games of the date; in a
\* "malformed" body the listed games are followed by an entry that is no
\* mapping, on which game.get raises
Response(k, gs) == [kind |-> k, games |-> gs]

FetchGames ==
    {RawGame(st, "dict", "list", <<RawInning("dict", a, PlainEntry)>>,
             RawTeams("dict", "int", 5, 3)) :
        st \in {"Final", "Scheduled"},
        a \in {PlainEntry, TeamEntry("null", "absent", 0)}}
    \cup {RawGame("Final", "absent", "absent", <<>>, RawTeams("dict", "int", 5, 3))}

Responses ==
    {Response(k, <<>>) : k \in {"exception", "non200", "no_dates"}}
    \cup {Response(k, <<g>>) : k \in {"games", "malformed"}, g \in FetchGames}

\* the for loop of lines 83-87 over the games of one date
RECURSIVE collect_final_games(_, _)
collect_final_games(all_games, gs) ==
    IF Len(gs) = 0 THEN all_games
    ELSE LET game == Head(gs)
             game_data == extract_game_data(game).value
         IN  IF game.status = "Final" /\ game_data # None
             THEN collect_final_games(Append(all_games, game_data), Tail(gs))
             ELSE collect_final_games(all_games, Tail(gs))

\* how the request of a date went: "failed" when requests.get raised or the
\* status was not 200, "answered" when a 200 body was read
request_outcome(response) ==
    IF response.kind \in {"exception", "non200"} THEN "failed" ELSE "answered"

\* current_date is counted in days from start_date; DateStep is the
\* timedelta(days=3) of line 96
DateStep == 3

\* the last day a datetime can hold (datetime.max), scaled to the model:
\* current_date += timedelta(days=3) raises OverflowError beyond it
LastDate == DateStep * (MaxDays + MaxFailures)

\* mutant of fetch_try: a request that raises drops the games collected
fetch_try_reset_on_error(f, response) ==
    IF response.kind = "exception"
    THEN [f EXCEPT !.failures = @ + 1, !.last = request_outcome(response), !.all_games = <<>>]
    ELSE IF response.kind = "malformed"
    THEN [f EXCEPT !.failures = @ + 1, !.last = request_outcome(response),
                   !.all_games = collect_final_games(@, response.games)]
    ELSE [f EXCEPT !.days_processed = @ + 1,
                   !.last = request_outcome(response),
                   !.all_games = IF response.kind = "games"
                                 THEN collect_final_games(@, response.games)
                                 ELSE @]

\* the try statement of the loop body, lines 71-94, on the loop's state f:
\* a statement that raises jumps to the handler before days_processed += 1
fetch_try(f, response) ==
    IF response.kind = "exception"
    THEN [f EXCEPT !.failures = @ + 1, !.last = request_outcome(response)]
    ELSE IF response.kind = "malformed"
    THEN [f EXCEPT !.failures = @ + 1, !.last = request_outcome(response),
                   !.all_games = collect_final_games(@, response.games)]
    ELSE [f EXCEPT !.days_processed = @ + 1,
                   !.last = request_outcome(response),
                   !.all_games = IF response.kind = "games"
                                 THEN collect_final_games(@, response.games)
                                 ELSE @]

\* the loop body, lines 71-97: the try statement, then current_date +=
\* timedelta(days=3), outside the try
fetch_iteration(f, response) ==
    LET t == fetch_try(f, response)
    IN  IF t.current_date + DateStep > LastDate
        THEN [t EXCEPT !.raised = "OverflowError"]
        ELSE [t EXCEPT !.current_date = @ + DateStep]

NoFetch ==
    [days_processed |-> 0, failures |-> 0, current_date |-> 0, last |-> "none",
     raised |-> "none", all_games |-> <<>>]

-----------------------------------------------------------------------------
(* The Analyze run of main(), lines 305-341 *)

\* the exception of the first call that raised, "none" when none did
FirstRaised(outcomes) ==
    IF \E i \in DOMAIN outcomes : outcomes[i].raised # "none"
    THEN LET i == CHOOSE j \in DOMAIN outcomes :
                      /\ outcomes[j].raised # "none"
                      /\ \A k \in 1..(j - 1) : outcomes[k].raised = "none"
         IN  outcomes[i].raised
    ELSE "none"

\* [g for g, keep in zip(gs, keeps) if keep]
RECURSIVE FilterBy(_, _)
FilterBy(gs, keeps) ==
    IF Len(gs) = 0 THEN <<>>
    ELSE (IF Head(keeps) THEN <<Head(gs)>> ELSE <<>>) \o FilterBy(Tail(gs), Tail(keeps))

EmptyBuckets == [k \in BucketKeys |-> <<>>]

\* the value of count / total_games * 100, kept as the fraction it is
Fraction(n, d) == [num |-> n, den |-> d]

\* `(count / total_games * 100) if total_games > 0 else 0`, lines 339-341, 458
guarded_percentage(count, total_games) ==
    IF total_games > 0 THEN Fraction(count * 100, total_games) ELSE Fraction(0, 1)

\* `count/total_games*100`, lines 544, 553, 562
percentage(count, total_games) ==
    IF total_games = 0 THEN Raised("ZeroDivisionError")
    ELSE Returned(Fraction(count * 100, total_games))

\* a row of the combined download, lines 768-793 (date and team names
\* are not modelled)
export_row(game, label) ==
    [away_score |-> game.away_score,
     home_score |-> game.home_score,
     first_5_innings_runs |-> PySum(first5_terms(game)),
     total_runs |-> game.away_score + game.home_score,
     criteria |-> label]

NoPercentages == [x |-> Fraction(0, 1), y |-> Fraction(0, 1), total |-> Fraction(0, 1)]

NoAnalysis ==
    [outcome |-> "none", total_games |-> 0, criteria_x_games |-> <<>>,
     criteria_y_only |-> <<>>, push_analysis |-> EmptyBuckets,
     total_matching |-> 0, percentages |-> NoPercentages,
     push_percentages |-> [k \in BucketKeys |-> Fraction(0, 1)],
     insights |-> NoPercentages, all_matching |-> <<>>]

\* an exception leaves main() and ends the script run
Failed(e, n) == [NoAnalysis EXCEPT !.outcome = e, !.total_games = n]

\* lines 325-797 of main(): classification, counts, percentages, push
\* table, insights and the combined download
analyze_games(gs, w) ==
    LET n  == Len(gs)
        xs == [i \in 1..n |->
                 call_meets_criteria_x(<<gs[i], w.x_first5, w.x_total, w.x_operator>>)]
    IN  IF FirstRaised(xs) # "none" THEN Failed(FirstRaised(xs), n)
        ELSE
    LET criteria_x_games == FilterBy(gs, [i \in 1..n |-> xs[i].value])
        ys == [i \in 1..n |->
                 call_meets_criteria_y(<<gs[i], w.y_first5, w.y_total, w.y_operator>>)]
    IN  IF FirstRaised(ys) # "none" THEN Failed(FirstRaised(ys), n)
        ELSE
    LET criteria_y_games == FilterBy(gs, [i \in 1..n |-> ys[i].value])
        m  == Len(criteria_y_games)
        zs == [i \in 1..m |->
                 call_meets_criteria_x(<<criteria_y_games[i], w.x_first5, w.x_total,
                                         w.x_operator>>)]
    IN  IF FirstRaised(zs) # "none" THEN Failed(FirstRaised(zs), n)
        ELSE
    LET criteria_y_only == FilterBy(criteria_y_games, [i \in 1..m |-> ~zs[i].value])
        push == call_analyze_push_combinations(<<gs, w.push_first5, w.push_total>>)
    IN  IF push.raised # "none" THEN Failed(push.raised, n)
        ELSE
    LET x_count == Len(criteria_x_games)
        y_count == Len(criteria_y_only)
        total_matching == x_count + y_count
        push_analysis == push.value
        criteria_x_count == Len(push_analysis[<<"over", "under">>])
        push_total_games == Len(push_analysis[<<"exactly", "exactly">>])
                            + Len(push_analysis[<<"under", "exactly">>])
                            + Len(push_analysis[<<"over", "exactly">>])
        edge_case_count == Len(push_analysis[<<"exactly", "under">>])
        insights == <<percentage(criteria_x_count, n), percentage(push_total_games, n),
                      percentage(edge_case_count, n)>>
    IN  IF FirstRaised(insights) # "none" THEN Failed(FirstRaised(insights), n)
        ELSE [outcome |-> "completed", total_games |-> n,
              criteria_x_games |-> criteria_x_games,
              criteria_y_only |-> criteria_y_only,
              push_analysis |-> push_analysis,
              total_matching |-> total_matching,
              percentages |-> [x |-> guarded_percentage(x_count, n),
                               y |-> guarded_percentage(y_count, n),
                               total |-> guarded_percentage(total_matching, n)],
              push_percentages |->
                  [k \in BucketKeys |-> guarded_percentage(Len(push_analysis[k]), n)],
              insights |-> [x |-> insights[1].value, y |-> insights[2].value,
                            total |-> insights[3].value],
              all_matching |->
                  [i \in 1..total_matching |->
                     IF i <= x_count THEN export_row(criteria_x_games[i], "X")
                     ELSE export_row(criteria_y_only[i - x_count], "Y")]]

\* mutant of main_analyze: `if not games: ... return` forgotten
main_analyze_no_empty_guard(gs, w) == analyze_games(gs, w)

\* the Analyze branch of main() once the games are gathered, lines 320-797
main_analyze(gs, w) ==
    IF Len(gs) = 0 THEN [NoAnalysis EXCEPT !.outcome = "no_games"]
    ELSE analyze_games(gs, w)

-----------------------------------------------------------------------------
(* The script runs: every interaction reruns main() with the widgets' values *)

NoCall == [fn |-> "none"]

Init ==
    /\ widgets = DefaultWidgets
    /\ pc = "idle"
    /\ games = <<>>
    /\ fetch = NoFetch
    /\ analysis = NoAnalysis
    /\ call = NoCall
    /\ rejected = "none"

\* a widget is changed: the script reruns without the button
SetWidgets ==
    /\ pc \in {"idle", "done"}
    /\ \E w \in WidgetChanges(widgets) :
        /\ w # widgets
        /\ widgets' = w
    /\ pc' = "idle"
    /\ games' = <<>>
    /\ fetch' = NoFetch
    /\ analysis' = NoAnalysis
    /\ rejected' = "none"
    /\ UNCHANGED call

\* an input outside a widget's range or options: the widget keeps its value
\* and the script is not rerun
RejectInput ==
    /\ pc \in {"idle", "done"}
    /\ \E k \in RefusingWidgets : rejected' = k
    /\ UNCHANGED <<widgets, pc, games, fetch, analysis, call>>

\* the button is pressed with live data: get_season_games starts
ClickAnalyzeLive ==
    /\ pc \in {"idle", "done"}
    /\ widgets.use_live_data
    /\ pc' = "fetching"
    /\ games' = <<>>
    /\ fetch' = NoFetch
    /\ analysis' = NoAnalysis
    /\ rejected' = "none"
    /\ UNCHANGED <<widgets, call>>

\* the button is pressed with sample data
ClickAnalyzeSample ==
    /\ pc \in {"idle", "done"}
    /\ ~widgets.use_live_data
    /\ pc' = "collected"
    /\ games' = get_sample_data
    /\ fetch' = NoFetch
    /\ analysis' = NoAnalysis
    /\ rejected' = "none"
    /\ UNCHANGED <<widgets, call>>

\* one iteration of the while loop of get_season_games
FetchDate ==
    /\ pc = "fetching"
    /\ fetch.days_processed < widgets.max_days
    /\ \E r \in Responses :
        /\ fetch_iteration(fetch, r).raised = "none"
        /\ fetch' = fetch_iteration(fetch, r)
    /\ UNCHANGED <<widgets, pc, games, analysis, call, rejected>>

\* an iteration raises outside its try: the exception leaves
\* get_season_games and main() falls back to the sample data (lines 313-316)
FetchRaise ==
    /\ pc = "fetching"
    /\ fetch.days_processed < widgets.max_days
    /\ \E r \in Responses :
        /\ fetch_iteration(fetch, r).raised # "none"
        /\ fetch' = [NoFetch EXCEPT !.raised = fetch_iteration(fetch, r).raised]
    /\ games' = get_sample_data
    /\ pc' = "collected"
    /\ UNCHANGED <<widgets, analysis, call, rejected>>

\* the loop ends: return all_games; the call's locals are gone
FetchReturn ==
    /\ pc = "fetching"
    /\ ~(fetch.days_processed < widgets.max_days)
    /\ games' = fetch.all_games
    /\ fetch' = NoFetch
    /\ pc' = "collected"
    /\ UNCHANGED <<widgets, analysis, call, rejected>>

\* mutant of Analyze: the classification consumes the list it walks
\* (games.pop(0) after the first game)
AnalyzeConsumingGames ==
    /\ pc = "collected"
    /\ analysis' = main_analyze(games, widgets)
    /\ games' = IF Len(games) = 0 THEN games ELSE Tail(games)
    /\ pc' = "done"
    /\ UNCHANGED <<widgets, fetch, call, rejected>>

\* the rest of the run: guard, classification, display, downloads
Analyze ==
    /\ pc = "collected"
    /\ analysis' = main_analyze(games, widgets)
    /\ pc' = "done"
    /\ UNCHANGED <<widgets, games, fetch, call, rejected>>

Next ==
    \/ SetWidgets
    \/ RejectInput
    \/ ClickAnalyzeLive
    \/ ClickAnalyzeSample
    \/ FetchDate
    \/ FetchRaise
    \/ FetchReturn
    \/ Analyze

Spec == Init /\ [][Next]_vars

-----------------------------------------------------------------------------
(* The module's functions called on their own.  A check is called either   *)
(* as it is declared, with the game alone, or as main() calls it, with the *)
(* thresholds after the game.  call holds the call made: its arguments,    *)
(* the callee's locals when it returned, and its outcome.                  *)

\* (first-5 threshold, total threshold, operator) as main() passes them
ThresholdArgs ==
    {<<7, 9, "<">>, <<6, 9, "<=">>, <<7, 9, "<=">>, <<7, 9, "=">>, <<7, 9, ">">>}

PivotArgs == {<<6, 9>>}

CallCriteriaX ==
    /\ call = NoCall
    /\ \E g \in GameArgs, extra \in {<<>>} \cup ThresholdArgs :
        LET args == <<g>> \o extra
        IN  call' = [fn |-> "meets_criteria_x", args |-> args,
                     locals |-> IF Len(args) = 1 THEN criteria_locals(g)
                                ELSE [set |-> FALSE],
                     result |-> call_meets_criteria_x(args)]
    /\ UNCHANGED <<widgets, pc, games, fetch, analysis, rejected>>

CallCriteriaY ==
    /\ call = NoCall
    /\ \E g \in GameArgs, extra \in {<<>>} \cup ThresholdArgs :
        LET args == <<g>> \o extra
        IN  call' = [fn |-> "meets_criteria_y", args |-> args,
                     locals |-> IF Len(args) = 1 THEN criteria_locals(g)
                                ELSE [set |-> FALSE],
                     result |-> call_meets_criteria_y(args)]
    /\ UNCHANGED <<widgets, pc, games, fetch, analysis, rejected>>

CallPush ==
    /\ call = NoCall
    /\ \E gs \in {<<>>} \cup {<<g>> : g \in GameArgs}, extra \in {<<>>} \cup PivotArgs :
        LET args == <<gs>> \o extra
        IN  call' = [fn |-> "analyze_push_combinations", args |-> args,
                     locals |-> [set |-> FALSE],
                     result |-> call_analyze_push_combinations(args)]
    /\ UNCHANGED <<widgets, pc, games, fetch, analysis, rejected>>

CallExtract ==
    /\ call = NoCall
    /\ \E raw \in RawGames :
        call' = [fn |-> "extract_game_data", args |-> <<raw>>,
                 locals |-> [set |-> FALSE],
                 result |-> extract_game_data(raw)]
    /\ UNCHANGED <<widgets, pc, games, fetch, analysis, rejected>>

NextCalls ==
    \/ CallCriteriaX
    \/ CallCriteriaY
    \/ CallPush
    \/ CallExtract

SpecCalls == Init /\ [][NextCalls]_vars

-----------------------------------------------------------------------------
(* What the specification says of a classification, in its own terms *)

\* sum of away_runs + home_runs over the first min(5, len(innings)) innings,
\* inning by inning
InningTotal(g, i) ==
    IF i <= Len(g.innings) THEN g.innings[i].away_runs + g.innings[i].home_runs ELSE 0

first5Runs(g) ==
    InningTotal(g, 1) + InningTotal(g, 2) + InningTotal(g, 3) + InningTotal(g, 4)
    + InningTotal(g, 5)

totalRuns(g) == g.away_score + g.home_score

compareTotal(total, operator, threshold) ==
    CASE operator = "<"  -> total < threshold
      [] operator = "<=" -> total <= threshold
      [] operator = "="  -> total = threshold
      [] operator = ">"  -> total > threshold

meetsCriterion(g, first5_minimum, total_operator, total_threshold) ==
    /\ g # None
    /\ Len(g.innings) > 0
    /\ first5Runs(g) >= first5_minimum
    /\ compareTotal(totalRuns(g), total_operator, total_threshold)

\* BELOW / EQUAL / ABOVE, in the bucket keys' words
Relation(v, pivot) ==
    IF v < pivot THEN "under" ELSE IF v = pivot THEN "exactly" ELSE "over"

Analyzed == pc = "done" /\ Len(games) > 0

-----------------------------------------------------------------------------
(* Claims *)

\* C1: a criterion check called as the Analyze action calls it, with the
\* caller's (first5_minimum, total_threshold, total_operator) after a game
\* that has innings, returns true exactly when first5Runs(game) >=
\* first5_minimum and compareTotal(totalRuns(game), operator, threshold).
C1_CheckFollowsCallerThresholds ==
    (/\ call.fn \in {"meets_criteria_x", "meets_criteria_y"}
     /\ Len(call.args) = 4
     /\ call.args[1] # None
     /\ Len(call.args[1].innings) > 0)
    => call.result =
         Returned(meetsCriterion(call.args[1], call.args[2], call.args[4], call.args[3]))

\* C2: in an Analyze run, a game whose first-5 runs reach the Criteria X
\* minimum is listed under Criteria X exactly when the configured operator
\* holds between its total runs and the configured threshold: "<" as <, "<="
\* as <=, "=" as ==, ">" as >.
C2_TotalComparedByConfiguredOperator ==
    Analyzed =>
        /\ analysis.outcome = "completed"
        /\ \A i \in 1..Len(games) :
              first5Runs(games[i]) >= widgets.x_first5 =>
                  ((\E j \in 1..Len(analysis.criteria_x_games) :
                        analysis.criteria_x_games[j] = games[i])
                   <=> compareTotal(totalRuns(games[i]), widgets.x_operator,
                                    widgets.x_total))

\* C3: in an Analyze run, the Y-only list is exactly the games that meet specY
\* and do not meet specX, and no game is in both the Criteria X list and the
\* Y-only list.
C3_YOnlyIsYMinusX ==
    Analyzed =>
        LET InX(g) == meetsCriterion(g, widgets.x_first5, widgets.x_operator,
                                     widgets.x_total)
            YOnly(g) == /\ meetsCriterion(g, widgets.y_first5, widgets.y_operator,
                                          widgets.y_total)
                        /\ ~InX(g)
        IN  /\ analysis.outcome = "completed"
            /\ analysis.criteria_y_only = SelectSeq(games, YOnly)
            /\ \A i \in 1..Len(analysis.criteria_x_games),
                  j \in 1..Len(analysis.criteria_y_only) :
                  analysis.criteria_x_games[i] # analysis.criteria_y_only[j]

\* C4: in an Analyze run, every game with innings is in exactly one of the 9
\* push buckets: the one named by the strict comparison of its first-5 runs
\* with push_first5 and of its total runs with push_total.
C4_PushBucketsPartition ==
    Analyzed =>
        /\ analysis.outcome = "completed"
        /\ \A k \in BucketKeys :
              LET InBucket(g) ==
                    /\ g # None
                    /\ Len(g.innings) > 0
                    /\ k = <<Relation(first5Runs(g), widgets.push_first5),
                             Relation(totalRuns(g), widgets.push_total)>>
              IN  analysis.push_analysis[k] = SelectSeq(games, InBucket)

NoInnings(g) == g = None \/ Len(g.innings) = 0

CriteriaCall == call.fn \in {"meets_criteria_x", "meets_criteria_y"}

\* the check called as it is declared, with the game alone
DeclaredCall == CriteriaCall /\ Len(call.args) = 1

\* C5: a game that is None or has an empty innings list never meets Criterion
\* X or Y, whatever its scores and the thresholds passed (the check called
\* with the game alone answers False), and no bucket of a push breakdown
\* holds such a game.
C5_NoInningsNeverMatches ==
    /\ (CriteriaCall /\ NoInnings(call.args[1])) =>
          /\ call.result # Returned(TRUE)
          /\ Len(call.args) = 1 => call.result = Returned(FALSE)
    /\ (call.fn = "analyze_push_combinations" /\ call.result.raised = "none") =>
          \A k \in BucketKeys : \A i \in 1..Len(call.result.value[k]) :
              ~NoInnings(call.result.value[k][i])

\* an empty innings list with scores 5-3 was checked against Criterion X
C5_Witness ==
    /\ call.fn = "meets_criteria_x"
    /\ Len(call.args) = 1
    /\ call.args[1] # None
    /\ Len(call.args[1].innings) = 0
    /\ totalRuns(call.args[1]) = 8
    /\ call.result = Returned(FALSE)

\* C6: the first-5 run total a criterion check computes is the sum of
\* away_runs + home_runs over the first min(5, number of innings) innings: a
\* game with fewer than 5 innings is summed over the innings present without
\* an error, and innings after the 5th do not contribute.
C6_First5IsFirstFiveInnings ==
    (DeclaredCall /\ call.args[1] # None) =>
        /\ call.result.raised = "none"
        /\ call.locals.set <=> Len(call.args[1].innings) > 0
        /\ call.locals.set => call.locals.runs_first_5 = first5Runs(call.args[1])

\* a game of 6 innings with runs in the 6th was checked, and its first-5
\* total is 7
C6_Witness ==
    /\ DeclaredCall
    /\ call.args[1] # None
    /\ Len(call.args[1].innings) = 6
    /\ InningTotal(call.args[1], 6) > 0
    /\ call.locals.set
    /\ call.locals.runs_first_5 = 7

\* all the inning runs of a game record
RECURSIVE InningsTotalUpTo(_, _)
InningsTotalUpTo(g, n) ==
    IF n = 0 THEN 0 ELSE InningTotal(g, n) + InningsTotalUpTo(g, n - 1)

\* C7: the total runs of a classification is away_score + home_score, never
\* the sum of the inning runs: the check answers by the declared scores for
\* the total clause and by the inning runs for the first-5 clause.
C7_TotalIsDeclaredScores ==
    (DeclaredCall /\ ~NoInnings(call.args[1])) =>
        LET g == call.args[1]
            declared == g.away_score + g.home_score
        IN  /\ call.locals.total_runs = declared
            /\ call.fn = "meets_criteria_x" =>
                  call.result = Returned(first5Runs(g) >= 7 /\ declared < 9)
            /\ call.fn = "meets_criteria_y" =>
                  call.result = Returned(first5Runs(g) >= 6 /\ declared <= 9)

\* a record whose inning runs add up to 9 or more and whose scores add up
\* to 8 met Criterion X
C7_Witness ==
    /\ call.fn = "meets_criteria_x"
    /\ Len(call.args) = 1
    /\ ~NoInnings(call.args[1])
    /\ InningsTotalUpTo(call.args[1], Len(call.args[1].innings)) >= 9
    /\ totalRuns(call.args[1]) = 8
    /\ call.result = Returned(TRUE)

\* the payload has no inning breakdown: no linescore, or no innings list in
\* it, or an empty one
NoInningBreakdown(raw) ==
    \/ raw.linescore # "dict"
    \/ raw.innings_key # "list"
    \/ Len(raw.innings) = 0

\* the payload holds null where the normaliser reads a mapping
Malformed(raw) ==
    \/ raw.linescore = "null"
    \/ raw.teams.teams = "null"
    \/ \E i \in 1..Len(raw.innings) :
          \/ raw.innings[i].kind # "dict"
          \/ raw.innings[i].away.entry = "null"
          \/ raw.innings[i].home.entry = "null"

\* C8: extract_game_data never raises, and returns None for every payload
\* with no inning breakdown and for every malformed payload; the fetch loop
\* adds nothing to its result for such a game.
C8_NoBreakdownGivesNone ==
    call.fn = "extract_game_data" =>
        LET raw == call.args[1]
        IN  /\ call.result.raised = "none"
            /\ (NoInningBreakdown(raw) \/ Malformed(raw)) =>
                  /\ call.result.value = None
                  /\ collect_final_games(<<>>, <<raw>>) = <<>>

\* a payload whose second inning has a null team entry was normalised to None
C8_Witness ==
    /\ call.fn = "extract_game_data"
    /\ ~NoInningBreakdown(call.args[1])
    /\ Len(call.args[1].innings) = 2
    /\ call.args[1].innings[1].kind = "dict"
    /\ call.args[1].innings[1].away.entry = "dict"
    /\ call.args[1].innings[1].home.entry = "dict"
    /\ call.args[1].innings[2].away.entry = "null"
    /\ call.result = Returned(None)

\* the runs a raw inning reports for a team, 0 when the team's entry or its
\* 'runs' is missing or null
Reported(e) == IF e.entry = "dict" /\ e.runs_key = "int" THEN e.runs ELSE 0

\* C9: for every raw inning of a payload extract_game_data produces one
\* inning line, numbered in order, whose away_runs and home_runs are the
\* reported values, and 0 when the value is missing or null or the team's
\* entry is absent; no raw inning is left out of the record.
C9_OneLinePerRawInning ==
    (call.fn = "extract_game_data" /\ call.result.raised = "none") =>
        LET raw == call.args[1]
            r   == call.result.value
        IN  /\ (~NoInningBreakdown(raw) /\ ~Malformed(raw)) => r # None
            /\ r # None =>
                  /\ Len(r.innings) = Len(raw.innings)
                  /\ \A i \in 1..Len(raw.innings) :
                        r.innings[i] = InningLine(i, Reported(raw.innings[i].away),
                                                  Reported(raw.innings[i].home))

\* a record of two lines was built from a first inning with no away entry
\* and a second inning whose away runs are null
C9_Witness ==
    /\ call.fn = "extract_game_data"
    /\ call.result.raised = "none"
    /\ call.result.value # None
    /\ Len(call.args[1].innings) = 2
    /\ call.args[1].innings[1].away.entry = "absent"
    /\ call.args[1].innings[2].away.entry = "dict"
    /\ call.args[1].innings[2].away.runs_key = "null"
    /\ call.result.value.innings =
          <<InningLine(1, 0, 1), InningLine(2, 0, 1)>>

\* a configuration the specification accepts: positive integer thresholds and
\* pivots, conditions among the four tokens
ValidConfiguration(w) ==
    /\ \A v \in {w.x_first5, w.x_total, w.y_first5, w.y_total, w.push_first5, w.push_total} :
        v \in Nat /\ v >= 1
    /\ w.x_operator \in {"<", "<=", "=", ">"}
    /\ w.y_operator \in {"<", "<=", "=", ">"}

\* C11: a threshold or pivot that is not a positive integer, or a condition
\* outside the four tokens, never becomes the configuration of a run: the
\* widget refuses it, so no game is ever classified under such a configuration.
C11_InvalidConfigurationRejected == ValidConfiguration(widgets)

\* an invalid input was tried after a run and refused
C11_Witness == rejected = "number_input" /\ pc = "done" /\ Len(games) > 0

C13_AnalyzeAlwaysHasGames ==
    /\ pc \in {"collected", "done"} => Len(games) > 0
    /\ analysis.outcome # "no_games"

\* the configured criteria, in the specification's terms
MeetsX(g) == meetsCriterion(g, widgets.x_first5, widgets.x_operator, widgets.x_total)
MeetsY(g) == meetsCriterion(g, widgets.y_first5, widgets.y_operator, widgets.y_total)

\* the label a game carries in the combined export, "none" when it is left out
ExportLabel(g) == IF MeetsX(g) THEN "X" ELSE IF MeetsY(g) THEN "Y" ELSE "none"

ExportRow(g) ==
    [away_score |-> g.away_score, home_score |-> g.home_score,
     first_5_innings_runs |-> first5Runs(g), total_runs |-> totalRuns(g),
     criteria |-> ExportLabel(g)]

\* C14: after an Analyze run the combined export holds one row labelled 'X'
\* for each game meeting Criteria X, one row labelled 'Y' for each game
\* meeting Criteria Y and not X, and no other row; each row carries the game's
\* first-5 runs and total runs.
C14_CombinedExportRows ==
    Analyzed =>
        /\ analysis.outcome = "completed"
        /\ LET rows == analysis.all_matching
               exported == {i \in 1..Len(games) : ExportLabel(games[i]) # "none"}
           IN  /\ Len(rows) = Cardinality(exported)
               /\ \A i \in exported :
                    Cardinality({j \in 1..Len(rows) : rows[j] = ExportRow(games[i])})
                    = Cardinality({k \in exported : ExportRow(games[k]) = ExportRow(games[i])})

\* count out of the raw length of the input list, as a percentage
PercentOfInput(count) == [num |-> count * 100, den |-> Len(games)]

\* C15: after an Analyze run every percentage shown (Criteria X, Criteria Y,
\* Total Match, each push bucket, the three insight metrics) is its count
\* divided by the number of games in the input list, games without innings
\* included.
C15_PercentagesOverRawCount ==
    Analyzed =>
        /\ analysis.outcome = "completed"
        /\ analysis.total_games = Len(games)
        /\ analysis.percentages =
             [x |-> PercentOfInput(Len(analysis.criteria_x_games)),
              y |-> PercentOfInput(Len(analysis.criteria_y_only)),
              total |-> PercentOfInput(Len(analysis.criteria_x_games)
                                       + Len(analysis.criteria_y_only))]
        /\ \A k \in DOMAIN analysis.push_analysis :
             analysis.push_percentages[k] = PercentOfInput(Len(analysis.push_analysis[k]))
        /\ analysis.insights.x = PercentOfInput(Len(analysis.push_analysis[<<"over", "under">>]))

\* C16: the Analyze run (criterion checks, push breakdown, export) leaves the
\* input list as it was gathered: same records, same length, same order.
C16_AnalyzeLeavesGamesUnchanged ==
    [][pc = "collected" => games' = games]_vars

\* a run over a gathered, non-empty list has ended
C16_Witness == pc = "done" /\ Len(games) > 0 /\ analysis.outcome # "none"

\* C17: whatever the requests of a get_season_games call yield, the loop
\* ends by returning the list it collected: the call never ends by an
\* exception, and its list is what main() goes on with.
C17_FetchEndsByReturning ==
    /\ fetch.raised = "none"
    /\ (pc = "collected" /\ widgets.use_live_data) => games # get_sample_data

\* the sidebar's default criteria: X is 7+ and < 9, Y is 6+ and <= 9
DefaultCriteria ==
    /\ widgets.x_first5 = 7 /\ widgets.x_total = 9 /\ widgets.x_operator = "<"
    /\ widgets.y_first5 = 6 /\ widgets.y_total = 9 /\ widgets.y_operator = "<="

\* C18: after an Analyze run under the default criteria, every game of the
\* Criteria X list meets Criteria Y, the X list and the Y-only list together
\* are exactly the games meeting Criteria Y, and total_matching is the number
\* of games meeting Criteria Y.
C18_DefaultXWithinY ==
    (Analyzed /\ DefaultCriteria) =>
        /\ analysis.outcome = "completed"
        /\ \A j \in 1..Len(analysis.criteria_x_games) : MeetsY(analysis.criteria_x_games[j])
        /\ analysis.criteria_x_games \o analysis.criteria_y_only
             = SelectSeq(games, MeetsX) \o SelectSeq(games, LAMBDA g : MeetsY(g) /\ ~MeetsX(g))
        /\ analysis.total_matching = Cardinality({i \in 1..Len(games) : MeetsY(games[i])})

\* the sidebar's default pivots: 6 for the first five innings, 9 for the total
DefaultPivots == widgets.push_first5 = 6 /\ widgets.push_total = 9

\* C19: after an Analyze run under the default criteria and pivots, the push
\* bucket "over 6 first 5, under 9 total", shown as "Criteria X" and "Most
\* Profitable", holds exactly the games of the input that meet Criteria X.
C19_OverUnderBucketIsCriteriaX ==
    (Analyzed /\ DefaultCriteria /\ DefaultPivots) =>
        /\ analysis.outcome = "completed"
        /\ analysis.push_analysis[<<"over", "under">>] = SelectSeq(games, MeetsX)
        /\ analysis.push_analysis[<<"over", "under">>] = analysis.criteria_x_games

\* C20: no Analyze run divides by a total_games of zero: a run over an empty
\* list ends at the "no games" guard with no count or percentage computed,
\* and a run that got past the guard has total_games > 0.
C20_NoDivisionByZeroGames ==
    /\ analysis.outcome # "ZeroDivisionError"
    /\ (pc = "done" /\ Len(games) = 0) =>
          /\ analysis.outcome = "no_games"
          /\ analysis.total_games = 0
          /\ analysis.total_matching = 0
          /\ analysis.percentages = NoPercentages
          /\ analysis.insights = NoPercentages
    /\ (pc = "done" /\ analysis.outcome # "no_games") =>
          analysis.total_games = Len(games) /\ analysis.total_games > 0

\* a live fetch came back empty and the run ended at the guard
C20_Witness ==
    /\ pc = "done"
    /\ widgets.use_live_data
    /\ Len(games) = 0
    /\ analysis.outcome = "no_games"

====
